---------------------------- MODULE Spec2Model ----------------------------
(***************************************************************************)
(* ABCU advising program (ProjectTwo.cpp): the CSV tokenizer, the two-pass *)
(* course loader, the two queries and the menu loop of main().             *)
(*                                                                         *)
(* A std::string is a sequence of one-character strings, so that trim,     *)
(* toupper, the comma split and the ordering used by std::sort are         *)
(* computed character by character as the code computes them.              *)
(***************************************************************************)
EXTENDS Integers, Sequences, FiniteSets, TLC

VARIABLES
    pc,                \* position: "start", "menu", "open1", "pass1", "pass2", "ret", "exit"
    fileName,          \* main: the trimmed file name
    coursesTable,      \* main: the CourseTable held by the menu loop
    dataLoaded,        \* main: the load-success flag
    out,               \* the course and message lines the last menu option or direct call wrote to std::cout
    lines,             \* the lines of the file read by the current loadCoursesFromFile call
    lineNumber,        \* loadCoursesFromFile: lineNumber of the running pass
    allCourseNumbers,  \* loadCoursesFromFile: the pass-1 key set
    tbl,               \* loadCoursesFromFile: its local coursesTable (the returned value)
    diag,              \* what the current loadCoursesFromFile call wrote to std::cerr
    srcLine,           \* history: course number -> line number the record of tbl was built from
    openFail,          \* history: 0 both opens succeeded so far, 1 / 2 the pass whose open failed
    scanned,           \* history: the line numbers each pass of the current call has read
    firstInput,        \* history: the input (lines, open outcome) of the first completed load
    firstResult,       \* history: the table main held after that first load
    reloaded,          \* history: a load after the first one has completed
    last,              \* history: the last menu option or direct call, with its argument
    tok                \* the tokens returned by the last direct call, when it was splitByComma

vars == <<pc, fileName, coursesTable, dataLoaded, out, lines, lineNumber,
          allCourseNumbers, tbl, diag, srcLine, openFail, scanned,
          firstInput, firstResult, reloaded, last, tok>>

-----------------------------------------------------------------------------
(* Bounds of the model *)

\* longest file (in lines) given to loadCoursesFromFile called on its own
MaxLines == 3

\* longest file (in lines) on disk during a menu session
MaxSessLines == 2

-----------------------------------------------------------------------------
(* Characters *)

\* the vertical tab, character code 11: TLA+ has no escape for it, so the
\* literal holds the character itself
VT == ""

\* std::isspace in the "C" locale: space, \t, \n, \v, \f, \r
isspace(ch) == ch \in {" ", "\t", "\n", VT, "\f", "\r"}

Lower == <<"a","b","c","d","e","f","g","h","i","j","k","l","m",
           "n","o","p","q","r","s","t","u","v","w","x","y","z">>

Upper == <<"A","B","C","D","E","F","G","H","I","J","K","L","M",
           "N","O","P","Q","R","S","T","U","V","W","X","Y","Z">>

\* std::toupper in the "C" locale
toupper(ch) ==
    IF \E i \in 1..Len(Lower) : Lower[i] = ch
    THEN Upper[CHOOSE i \in 1..Len(Lower) : Lower[i] = ch]
    ELSE ch

Digits == <<"0","1","2","3","4","5","6","7","8","9">>

\* the ASCII characters of codes 32 to 47
Punct == <<" ","!","\"","#","$","%","&","'","(",")","*","+",",","-",".","/">>

Index(seq, ch) == CHOOSE i \in 1..Len(seq) : seq[i] = ch

Has(seq, ch) == \E i \in 1..Len(seq) : seq[i] = ch

\* the unsigned char value std::string's operator< compares (ASCII), for the
\* white space, punctuation 32..47, digits and letters
Ord(ch) ==
    CASE ch = "\t" -> 9
      [] ch = "\n" -> 10
      [] ch = VT   -> 11
      [] ch = "\f" -> 12
      [] ch = "\r" -> 13
      [] Has(Punct, ch)  -> 31 + Index(Punct, ch)
      [] Has(Digits, ch) -> 47 + Index(Digits, ch)
      [] Has(Upper, ch)  -> 64 + Index(Upper, ch)
      [] Has(Lower, ch)  -> 96 + Index(Lower, ch)

\* std::string operator< : lexicographic, a proper prefix is smaller
RECURSIVE StrLess(_, _)
StrLess(a, b) ==
    IF b = <<>> THEN FALSE
    ELSE IF a = <<>> THEN TRUE
    ELSE IF Ord(a[1]) < Ord(b[1]) THEN TRUE
    ELSE IF Ord(a[1]) > Ord(b[1]) THEN FALSE
    ELSE StrLess(Tail(a), Tail(b))

-----------------------------------------------------------------------------
(* Utility helpers *)

\* first loop of trim: start is a 0-based index as in the code
RECURSIVE TrimStart(_, _)
TrimStart(s, start) ==
    IF start < Len(s) /\ isspace(s[start + 1])
    THEN TrimStart(s, start + 1)
    ELSE start

\* second loop of trim: s[end - 1] of the code is s[end] here
RECURSIVE TrimEnd(_, _, _)
TrimEnd(s, start, end) ==
    IF end > start /\ isspace(s[end])
    THEN TrimEnd(s, start, end - 1)
    ELSE end

trim(s) ==
    LET start == TrimStart(s, 0)
        end   == TrimEnd(s, start, Len(s))
    IN  SubSeq(s, start + 1, end)

normalizeCourseNumber(s) ==
    LET t == trim(s)
    IN  [i \in 1..Len(t) |-> toupper(t[i])]

\* 0-based position of the first ',' at or after pos, Len(line) when there is none
RECURSIVE NextDelim(_, _)
NextDelim(line, pos) ==
    IF pos < Len(line) /\ line[pos + 1] # ","
    THEN NextDelim(line, pos + 1)
    ELSE pos

\* the while (std::getline(ss, token, ',')) loop: getline fails, and the loop
\* ends, when no character is left to extract
RECURSIVE GetTokens(_, _)
GetTokens(line, pos) ==
    IF pos >= Len(line) THEN <<>>
    ELSE LET e == NextDelim(line, pos)
         IN  <<trim(SubSeq(line, pos + 1, e))>> \o GetTokens(line, e + 1)

splitByComma(line) ==
    LET tokens == GetTokens(line, 0)
    IN  IF line # <<>> /\ line[Len(line)] = ","
        THEN Append(tokens, <<>>)
        ELSE tokens

-----------------------------------------------------------------------------
(* Inputs *)

\* the lines a course file is made of when loadCoursesFromFile is called on
\* its own; the undeclared course number is c
UnitLines ==
    { <<>>,                                          \* ""
      <<" ", "\t", VT>>,                             \* " \t\v"
      <<"a", ",", "T">>,                             \* "a,T"
      <<VT, " ", "A", " ", ",", "U">>,               \* "\v A ,U"
      <<"a", ",", "T", ",", "b">>,                   \* "a,T,b"
      <<"b", ",", "V">>,                             \* "b,V"
      <<"b", ",", "V", ",", "c">>,                   \* "b,V,c"
      <<"b", ",", "V", ",", ",", " ", "a", ",">>,    \* "b,V,, a,"
      <<"a", "1", ",", "W", ",", "b", ",", "A", ",", "b">>,   \* "a1,W,b,A,b"
      <<"a">>,                                       \* "a"
      <<",", "T">>,                                  \* ",T"
      <<"a", ",", " ">> }                            \* "a, "

\* the lines of the file on disk during a menu session
SessionLines ==
    { <<"a", ",", "T">>,                             \* "a,T"
      <<"b", ",", "V", ",", "a">>,                   \* "b,V,a"
      <<"a", ",", "U", ",", "c">> }                  \* "a,U,c"

SeqsUpTo(S, n) == UNION { [1..k -> S] : k \in 0..n }

UnitFiles == SeqsUpTo(UnitLines, MaxLines)

SessionFiles == SeqsUpTo(SessionLines, MaxSessLines)

\* what the user types at the file name prompt
FileNameInputs == { <<>>, <<" ", "f", " ">> }

\* what the user types at the menu prompt
ChoiceInputs ==
    { <<" ", "1">>, <<"2">>, <<"+", "2">>, <<"3">>, <<"9">>, <<"5">>,
      <<"-", "1">>, <<"1", "x">>, <<"x">>, <<" ">>, <<>> }

\* what the user types at the course number prompt, or a direct caller passes
RawKeys == { <<"a">>, <<" ", "b", " ">>, <<"A", "1">>, <<"c">>, <<>> }

-----------------------------------------------------------------------------
(* Course table *)

\* a default-constructed CourseTable
EmptyTable == [k \in {} |-> k]

Course(courseNumber, title, prerequisites) ==
    [courseNumber |-> courseNumber, title |-> title, prerequisites |-> prerequisites]

\* one std::cerr message of loadCoursesFromFile: its kind and its line number
\* (0 for "Could not open file")
Diag(kind, n) == [kind |-> kind, line |-> n]

\* one std::cout line: its kind and the course number, title and count it prints
OutLine(kind, num, title, count) ==
    [kind |-> kind, num |-> num, title |-> title, count |-> count]

Msg(kind) == OutLine(kind, <<>>, <<>>, 0)

-----------------------------------------------------------------------------
(* loadCoursesFromFile *)

\* LineCheck without the blank-line test: a blank line falls to the format check
LineCheck_noblank(line) ==
    LET tokens == splitByComma(line)
    IN  IF Len(tokens) < 2 THEN "BadFormat"
        ELSE IF normalizeCourseNumber(tokens[1]) = <<>> \/ trim(tokens[2]) = <<>>
             THEN "Missing"
        ELSE "ok"

\* the checks both passes make on a line before looking at course numbers
\* (pass 1 lines 85-104, repeated in pass 2 lines 129-147)
LineCheck(line) ==
    LET tokens == splitByComma(line)
    IN  IF trim(line) = <<>> THEN "blank"
        ELSE IF Len(tokens) < 2 THEN "BadFormat"
        ELSE IF normalizeCourseNumber(tokens[1]) = <<>> \/ trim(tokens[2]) = <<>>
             THEN "Missing"
        ELSE "ok"

\* prereqIsValid that looks at the first prerequisite token only
prereqIsValid_first(tokens, i, all) ==
    \/ i >= Len(tokens)
    \/ normalizeCourseNumber(tokens[i + 1]) = <<>>
    \/ normalizeCourseNumber(tokens[i + 1]) \in all

\* the prerequisite validation loop, from 0-based token index i
RECURSIVE prereqIsValid(_, _, _)
prereqIsValid(tokens, i, all) ==
    IF i >= Len(tokens) THEN TRUE
    ELSE LET prereq == normalizeCourseNumber(tokens[i + 1])
         IN  IF prereq = <<>> THEN prereqIsValid(tokens, i + 1, all)
             ELSE IF prereq \notin all THEN FALSE
             ELSE prereqIsValid(tokens, i + 1, all)

\* the loop that fills c.prerequisites, from 0-based token index i
RECURSIVE Prerequisites(_, _)
Prerequisites(tokens, i) ==
    IF i >= Len(tokens) THEN <<>>
    ELSE LET prereq == normalizeCourseNumber(tokens[i + 1])
         IN  (IF prereq # <<>> THEN <<prereq>> ELSE <<>>) \o Prerequisites(tokens, i + 1)

\* the guarded insertion into the hash table
Insert(table, c) ==
    IF c.courseNumber \notin DOMAIN table
    THEN table @@ (c.courseNumber :> c)
    ELSE table

\* Pass1Keys that skips a duplicate without a message
Pass1Keys_silent(all, courseNum) ==
    [all |-> all \cup {courseNum}, err |-> <<>>]

\* pass 1 on a line that passed LineCheck: the duplicate test and the insert
\* into allCourseNumbers; the result is the new set and the message, if any
Pass1Keys(all, courseNum) ==
    IF courseNum \in all
    THEN [all |-> all, err |-> <<"Duplicate">>]
    ELSE [all |-> all \cup {courseNum}, err |-> <<>>]

\* std::ifstream in(fileName): the empty name never opens, another name opens
\* or not as the file system decides
OpenOutcomes(name) == IF name = <<>> THEN {FALSE} ELSE {TRUE, FALSE}

\* OpenFailed that writes no message
OpenFailed_silent(written) == written

\* std::cerr << "ERROR: Could not open file: " on the messages written so far
OpenFailed(written) == Append(written, Diag("CouldNotOpen", 0))

Open1 ==
    /\ pc = "open1"
    /\ \E ok \in OpenOutcomes(fileName) :
         IF ok
         THEN /\ pc' = "pass1"
              /\ UNCHANGED <<diag, openFail>>
         ELSE /\ pc' = "ret"
              /\ diag' = OpenFailed(diag)
              /\ openFail' = 1
    /\ UNCHANGED <<fileName, coursesTable, dataLoaded, out, lines, lineNumber,
                   allCourseNumbers, tbl, srcLine, scanned, firstInput,
                   firstResult, reloaded, last, tok>>

Pass1Line ==
    /\ pc = "pass1"
    /\ lineNumber < Len(lines)
    /\ LET n         == lineNumber + 1
           line      == lines[n]
           check     == LineCheck(line)
           tokens    == splitByComma(line)
           courseNum == normalizeCourseNumber(tokens[1])
           keys      == Pass1Keys(allCourseNumbers, courseNum)
       IN  /\ lineNumber' = n
           /\ scanned' = [scanned EXCEPT !.p1 = @ \cup {n}]
           /\ IF check = "blank"
              THEN UNCHANGED <<allCourseNumbers, diag>>
              ELSE IF check # "ok"
              THEN /\ diag' = Append(diag, Diag(check, n))
                   /\ UNCHANGED allCourseNumbers
              ELSE /\ allCourseNumbers' = keys.all
                   /\ diag' = diag \o [i \in 1..Len(keys.err) |-> Diag(keys.err[i], n)]
    /\ UNCHANGED <<pc, fileName, coursesTable, dataLoaded, out, lines, tbl,
                   srcLine, openFail, firstInput, firstResult, reloaded, last, tok>>

\* end of the pass-1 loop, and the second std::ifstream in(fileName)
Open2 ==
    /\ pc = "pass1"
    /\ lineNumber = Len(lines)
    /\ \E ok \in OpenOutcomes(fileName) :
         IF ok
         THEN /\ pc' = "pass2"
              /\ lineNumber' = 0
              /\ UNCHANGED <<diag, openFail>>
         ELSE /\ pc' = "ret"
              /\ diag' = OpenFailed(diag)
              /\ openFail' = 2
              /\ UNCHANGED lineNumber
    /\ UNCHANGED <<fileName, coursesTable, dataLoaded, out, lines,
                   allCourseNumbers, tbl, srcLine, scanned, firstInput,
                   firstResult, reloaded, last, tok>>

Pass2Line ==
    /\ pc = "pass2"
    /\ lineNumber < Len(lines)
    /\ LET n         == lineNumber + 1
           line      == lines[n]
           check     == LineCheck(line)
           tokens    == splitByComma(line)
           courseNum == normalizeCourseNumber(tokens[1])
           title     == trim(tokens[2])
           c         == Course(courseNum, title, Prerequisites(tokens, 2))
       IN  /\ lineNumber' = n
           /\ scanned' = [scanned EXCEPT !.p2 = @ \cup {n}]
           /\ IF check = "blank"
              THEN UNCHANGED <<tbl, srcLine, diag>>
              ELSE IF check # "ok"
              THEN /\ diag' = Append(diag, Diag(check, n))
                   /\ UNCHANGED <<tbl, srcLine>>
              ELSE IF ~prereqIsValid(tokens, 2, allCourseNumbers)
              THEN /\ diag' = Append(diag, Diag("InvalidPrereq", n))
                   /\ UNCHANGED <<tbl, srcLine>>
              ELSE /\ tbl' = Insert(tbl, c)
                   /\ srcLine' = IF tbl' # tbl THEN srcLine @@ (courseNum :> n) ELSE srcLine
                   /\ UNCHANGED diag
    /\ UNCHANGED <<pc, fileName, coursesTable, dataLoaded, out, lines,
                   allCourseNumbers, openFail, firstInput, firstResult, reloaded, last, tok>>

\* end of the pass-2 loop: return coursesTable
Return ==
    /\ pc = "pass2"
    /\ lineNumber = Len(lines)
    /\ pc' = "ret"
    /\ UNCHANGED <<fileName, coursesTable, dataLoaded, out, lines, lineNumber,
                   allCourseNumbers, tbl, diag, srcLine, openFail, scanned,
                   firstInput, firstResult, reloaded, last, tok>>

-----------------------------------------------------------------------------
(* Queries *)

\* SortStrings with the comparison reversed
RECURSIVE SortStrings_desc(_)
SortStrings_desc(S) ==
    IF S = {} THEN <<>>
    ELSE LET m == CHOOSE x \in S : \A y \in S \ {x} : StrLess(y, x)
         IN  <<m>> \o SortStrings_desc(S \ {m})

\* std::sort of the course numbers of the table: ascending by operator<
RECURSIVE SortStrings(_)
SortStrings(S) ==
    IF S = {} THEN <<>>
    ELSE LET m == CHOOSE x \in S : \A y \in S \ {x} : StrLess(x, y)
         IN  <<m>> \o SortStrings(S \ {m})

printCourseListSorted(table) ==
    IF DOMAIN table = {} THEN <<Msg("NoData")>>
    ELSE LET courseNums == SortStrings(DOMAIN table)
         IN  [i \in 1..Len(courseNums) |->
                OutLine("Course", table[courseNums[i]].courseNumber,
                        table[courseNums[i]].title, 0)]

\* one line of the prerequisite listing of printCourseInfo
PrereqLine(table, prereqNum) ==
    IF prereqNum \in DOMAIN table
    THEN OutLine("Prereq", table[prereqNum].courseNumber, table[prereqNum].title, 0)
    ELSE OutLine("PrereqMissing", prereqNum, <<>>, 0)

printCourseInfo(table, inputCourseNumber) ==
    LET courseNumber == normalizeCourseNumber(inputCourseNumber)
    IN  IF DOMAIN table = {} THEN <<Msg("NoData")>>
        ELSE IF courseNumber \notin DOMAIN table
        THEN <<OutLine("NotFound", courseNumber, <<>>, 0)>>
        ELSE LET course == table[courseNumber]
                 head   == OutLine("Course", course.courseNumber, course.title, 0)
             IN  IF course.prerequisites = <<>>
                 THEN <<head, Msg("PrereqNone")>>
                 ELSE <<head, Msg("PrereqHeader")>>
                      \o [i \in 1..Len(course.prerequisites) |->
                            PrereqLine(table, course.prerequisites[i])]

-----------------------------------------------------------------------------
(* main *)

RECURSIVE AllDigits(_)
AllDigits(d) == d = <<>> \/ (Has(Digits, d[1]) /\ AllDigits(Tail(d)))

RECURSIVE DecVal(_, _)
DecVal(d, acc) == IF d = <<>> THEN acc ELSE DecVal(Tail(d), 10 * acc + Index(Digits, d[1]) - 1)

\* readIntChoice on the line typed: std::stoi takes an optional sign and the
\* digits after it, throws when there is no digit or the value does not fit an
\* int, and idx must reach the end of the trimmed line
readIntChoice(typed) ==
    LET line == trim(typed)
        neg  == line # <<>> /\ line[1] = "-"
        d    == IF line # <<>> /\ line[1] \in {"+", "-"} THEN Tail(line) ELSE line
        val  == IF neg THEN 0 - DecVal(d, 0) ELSE DecVal(d, 0)
    IN  IF line = <<>> \/ d = <<>> \/ ~AllDigits(d) THEN [ok |-> FALSE, val |-> 0]
        ELSE IF val > 2147483647 \/ val < -2147483647 - 1 THEN [ok |-> FALSE, val |-> 0]
        ELSE [ok |-> TRUE, val |-> val]

\* Assign that inserts the loaded records into the table main already holds
Assign_merge(held, result) == result @@ held

\* coursesTable = loadCoursesFromFile(fileName): the copy assignment replaces
\* the table main holds
Assign(held, result) == result

\* LoadedFlag that is never cleared once set
LoadedFlag_sticky(held, table) == held \/ DOMAIN table # {}

\* the value dataLoaded gets after a load, from the table main now holds
LoadedFlag(held, table) == DOMAIN table # {}

Called(op, arg) == [op |-> op, arg |-> arg]

\* the file name prompt before the menu loop
Start ==
    /\ pc = "start"
    /\ \E typed \in FileNameInputs : fileName' = trim(typed)
    /\ pc' = "menu"
    /\ UNCHANGED <<coursesTable, dataLoaded, out, lines, lineNumber,
                   allCourseNumbers, tbl, diag, srcLine, openFail, scanned,
                   firstInput, firstResult, reloaded, last, tok>>

\* readIntChoice fails: "Invalid input", and the menu again
InvalidInput ==
    /\ pc = "menu"
    /\ \E typed \in ChoiceInputs :
         /\ ~readIntChoice(typed).ok
         /\ last' = Called("invalid", typed)
    /\ out' = <<Msg("InvalidInput")>>
    /\ UNCHANGED <<pc, fileName, coursesTable, dataLoaded, lines, lineNumber,
                   allCourseNumbers, tbl, diag, srcLine, openFail, scanned,
                   firstInput, firstResult, reloaded, tok>>

\* option 1 up to the call: the file name is asked again while it is empty,
\* and loadCoursesFromFile starts on the file as it is on disk at that moment
OptionLoad ==
    /\ pc = "menu"
    /\ \E typed \in ChoiceInputs :
         /\ readIntChoice(typed).ok
         /\ readIntChoice(typed).val = 1
    /\ \E typed \in FileNameInputs :
         fileName' = IF fileName = <<>> THEN trim(typed) ELSE fileName
    /\ \E content \in SessionFiles : lines' = content
    /\ pc' = "open1"
    /\ lineNumber' = 0
    /\ allCourseNumbers' = {}
    /\ tbl' = EmptyTable
    /\ diag' = <<>>
    /\ srcLine' = EmptyTable
    /\ openFail' = 0
    /\ scanned' = [p1 |-> {}, p2 |-> {}]
    /\ out' = <<>>
    /\ last' = Called("load", <<>>)
    /\ UNCHANGED <<coursesTable, dataLoaded, firstInput, firstResult, reloaded, tok>>

\* option 1 from the return of loadCoursesFromFile
AfterLoad ==
    /\ pc = "ret"
    /\ coursesTable' = Assign(coursesTable, tbl)
    /\ dataLoaded' = LoadedFlag(dataLoaded, coursesTable')
    /\ out' = IF DOMAIN coursesTable' # {}
              THEN <<OutLine("Loaded", <<>>, <<>>, Cardinality(DOMAIN coursesTable'))>>
              ELSE <<Msg("NoCoursesLoaded")>>
    /\ IF firstInput.set
       THEN UNCHANGED <<firstInput, firstResult>>
       ELSE /\ firstInput' = [set |-> TRUE, lines |-> lines, openFail |-> openFail]
            /\ firstResult' = coursesTable'
    /\ pc' = "menu"
    /\ reloaded' = firstInput.set
    /\ UNCHANGED <<fileName, lines, lineNumber, allCourseNumbers, tbl, diag,
                   srcLine, openFail, scanned, last, tok>>

\* option 2
OptionList ==
    /\ pc = "menu"
    /\ \E typed \in ChoiceInputs :
         /\ readIntChoice(typed).ok
         /\ readIntChoice(typed).val = 2
    /\ out' = IF ~dataLoaded THEN <<Msg("PleaseLoad")>>
              ELSE printCourseListSorted(coursesTable)
    /\ last' = Called("list", <<>>)
    /\ UNCHANGED <<pc, fileName, coursesTable, dataLoaded, lines, lineNumber,
                   allCourseNumbers, tbl, diag, srcLine, openFail, scanned,
                   firstInput, firstResult, reloaded, tok>>

\* option 3
OptionCourse ==
    /\ pc = "menu"
    /\ \E typed \in ChoiceInputs :
         /\ readIntChoice(typed).ok
         /\ readIntChoice(typed).val = 3
    /\ IF ~dataLoaded
       THEN /\ out' = <<Msg("PleaseLoad")>>
            /\ last' = Called("course", <<>>)
       ELSE \E courseNumber \in RawKeys :
              /\ out' = printCourseInfo(coursesTable, courseNumber)
              /\ last' = Called("course", courseNumber)
    /\ UNCHANGED <<pc, fileName, coursesTable, dataLoaded, lines, lineNumber,
                   allCourseNumbers, tbl, diag, srcLine, openFail, scanned,
                   firstInput, firstResult, reloaded, tok>>

\* option 9
OptionExit ==
    /\ pc = "menu"
    /\ \E typed \in ChoiceInputs :
         /\ readIntChoice(typed).ok
         /\ readIntChoice(typed).val = 9
    /\ pc' = "exit"
    /\ out' = <<Msg("Goodbye")>>
    /\ last' = Called("exit", <<>>)
    /\ UNCHANGED <<fileName, coursesTable, dataLoaded, lines, lineNumber,
                   allCourseNumbers, tbl, diag, srcLine, openFail, scanned,
                   firstInput, firstResult, reloaded, tok>>

\* any other number: "Invalid option"
OptionOther ==
    /\ pc = "menu"
    /\ \E typed \in ChoiceInputs :
         /\ readIntChoice(typed).ok
         /\ readIntChoice(typed).val \notin {1, 2, 3, 9}
         /\ last' = Called("other", typed)
    /\ out' = <<Msg("InvalidOption")>>
    /\ UNCHANGED <<pc, fileName, coursesTable, dataLoaded, lines, lineNumber,
                   allCourseNumbers, tbl, diag, srcLine, openFail, scanned,
                   firstInput, firstResult, reloaded, tok>>

-----------------------------------------------------------------------------
(* Direct calls of the tokenizer and the queries on the table a load returned *)

CallList ==
    /\ pc = "ret"
    /\ out' = printCourseListSorted(tbl)
    /\ last' = Called("list", <<>>)
    /\ tok' = <<>>
    /\ UNCHANGED <<pc, fileName, coursesTable, dataLoaded, lines, lineNumber,
                   allCourseNumbers, tbl, diag, srcLine, openFail, scanned,
                   firstInput, firstResult, reloaded>>

CallInfo ==
    /\ pc = "ret"
    /\ \E inputCourseNumber \in RawKeys :
         /\ out' = printCourseInfo(tbl, inputCourseNumber)
         /\ last' = Called("course", inputCourseNumber)
    /\ tok' = <<>>
    /\ UNCHANGED <<pc, fileName, coursesTable, dataLoaded, lines, lineNumber,
                   allCourseNumbers, tbl, diag, srcLine, openFail, scanned,
                   firstInput, firstResult, reloaded>>

CallSplit ==
    /\ pc = "ret"
    /\ \E n \in 1..Len(lines) :
         /\ tok' = splitByComma(lines[n])
         /\ last' = Called("split", lines[n])
    /\ out' = <<>>
    /\ UNCHANGED <<pc, fileName, coursesTable, dataLoaded, lines, lineNumber,
                   allCourseNumbers, tbl, diag, srcLine, openFail, scanned,
                   firstInput, firstResult, reloaded>>

-----------------------------------------------------------------------------
(* Specifications *)

InitCommon ==
    /\ coursesTable = EmptyTable
    /\ dataLoaded = FALSE
    /\ out = <<>>
    /\ lineNumber = 0
    /\ allCourseNumbers = {}
    /\ tbl = EmptyTable
    /\ diag = <<>>
    /\ srcLine = EmptyTable
    /\ openFail = 0
    /\ scanned = [p1 |-> {}, p2 |-> {}]
    /\ firstInput = [set |-> FALSE, lines |-> <<>>, openFail |-> 0]
    /\ firstResult = EmptyTable
    /\ reloaded = FALSE
    /\ last = Called("none", <<>>)
    /\ tok = <<>>

\* the program: main() from its first statement
Init ==
    /\ pc = "start"
    /\ fileName = <<>>
    /\ lines = <<>>
    /\ InitCommon

Next ==
    \/ Start
    \/ InvalidInput
    \/ OptionLoad
    \/ Open1
    \/ Pass1Line
    \/ Open2
    \/ Pass2Line
    \/ Return
    \/ AfterLoad
    \/ OptionList
    \/ OptionCourse
    \/ OptionExit
    \/ OptionOther

Spec == Init /\ [][Next]_vars

\* loadCoursesFromFile called on any file of UnitFiles, then the tokenizer and
\* the queries called on its lines and on the table it returned
InitLoad ==
    /\ pc = "open1"
    /\ fileName = <<"f">>
    /\ lines \in UnitFiles
    /\ InitCommon

NextLoad ==
    \/ Open1
    \/ Pass1Line
    \/ Open2
    \/ Pass2Line
    \/ Return
    \/ CallList
    \/ CallInfo
    \/ CallSplit

SpecLoad == InitLoad /\ [][NextLoad]_vars

-----------------------------------------------------------------------------
(* Vocabulary of the properties, read off the input lines *)

Range(f) == { f[k] : k \in DOMAIN f }

\* line n of the input has a course number and a title
WellFormed(n) == LineCheck(lines[n]) = "ok"

KeyOf(line) == normalizeCourseNumber(splitByComma(line)[1])

TitleOf(line) == trim(splitByComma(line)[2])

\* the non-empty prerequisite tokens of a line, normalized, in order
PrereqsOf(line) ==
    LET t    == splitByComma(line)
        norm == [i \in 1..(Len(t) - 2) |-> normalizeCourseNumber(t[i + 2])]
    IN  SelectSeq(norm, LAMBDA x : x # <<>>)

\* the course numbers declared anywhere in the input
DeclaredKeys == { KeyOf(lines[n]) : n \in { m \in 1..Len(lines) : WellFormed(m) } }

\* the lines that declare course number k, in input order
Declaring(k) == { n \in 1..Len(lines) : WellFormed(n) /\ KeyOf(lines[n]) = k }

\* line n names a prerequisite that no line declares
HasBadPrereq(n) ==
    \E i \in 1..Len(PrereqsOf(lines[n])) : PrereqsOf(lines[n])[i] \notin DeclaredKeys

HasDiag(n) == \E i \in 1..Len(diag) : diag[i].line = n

Blank(line) == \A i \in 1..Len(line) : isspace(line[i])

\* the load has returned after opening the file in both passes
Loaded == pc = "ret" /\ openFail = 0

-----------------------------------------------------------------------------
(* Properties *)

\* C1: after a load, every prerequisite of every record of the returned table
\* is itself a course number of that table, and printCourseInfo never prints
\* its "(missing info)" line.
C1_ReferentialIntegrity ==
    /\ pc = "ret" =>
         \A k \in DOMAIN tbl : \A i \in 1..Len(tbl[k].prerequisites) :
            tbl[k].prerequisites[i] \in DOMAIN tbl
    /\ \A i \in 1..Len(out) : out[i].kind # "PrereqMissing"

\* C2: when several well-formed lines declare the same course number, a record
\* stored under that number carries the title and the prerequisites of the
\* first of them; no later one contributes.
C2_FirstOccurrenceWins ==
    pc = "ret" =>
      \A k \in DOMAIN tbl :
         LET first == CHOOSE n \in Declaring(k) : \A m \in Declaring(k) : n <= m
         IN  /\ srcLine[k] = first
             /\ tbl[k].title = TitleOf(lines[first])
             /\ tbl[k].prerequisites = PrereqsOf(lines[first])

\* C3: no record of the table was built from a line that names a prerequisite
\* declared nowhere in the input: such a line is dropped whole, never stored
\* with the bad reference removed.
C3_InvalidPrereqRejectsCourse ==
    /\ \A k \in DOMAIN tbl :
         /\ srcLine[k] \in Declaring(k)
         /\ ~HasBadPrereq(srcLine[k])
         /\ tbl[k].prerequisites = PrereqsOf(lines[srcLine[k]])
    /\ Loaded =>
         \A n \in 1..Len(lines) :
            WellFormed(n) /\ HasBadPrereq(n) =>
               n \notin Range(srcLine)

\* C3 witness: a well-formed line with an undeclared prerequisite was dropped
\* while another line of the same file was stored.
C3_Witness ==
    /\ Loaded
    /\ DOMAIN tbl # {}
    /\ \E n \in 1..Len(lines) : WellFormed(n) /\ HasBadPrereq(n) /\ n \notin Range(srcLine)

\* C4: a load of an openable file reads every line in both passes, and every
\* non-blank line that is not the source of a record has a diagnostic for its
\* line number.
C4_NoSilentRejection ==
    Loaded =>
      /\ scanned.p1 = 1..Len(lines)
      /\ scanned.p2 = 1..Len(lines)
      /\ \A n \in 1..Len(lines) :
            ~Blank(lines[n]) /\ n \notin Range(srcLine) =>
               \E i \in 1..Len(diag) :
                  /\ diag[i].line = n
                  /\ diag[i].kind \in {"BadFormat", "Missing", "Duplicate", "InvalidPrereq"}

\* C4 witness: the first line was rejected with a diagnostic and a later line
\* became a record.
C4_Witness ==
    /\ Loaded
    /\ Len(lines) >= 2
    /\ ~Blank(lines[1])
    /\ 1 \notin Range(srcLine)
    /\ HasDiag(1)
    /\ \E n \in 2..Len(lines) : n \in Range(srcLine)

\* C9 as stated: splitByComma returns no token for every empty or
\* whitespace-only line, and a load skips such a line in both passes with no
\* diagnostic and no record.
C9_BlankLineNoTokens ==
    /\ last.op = "split" /\ Blank(last.arg) => tok = <<>>
    /\ Loaded =>
         \A n \in 1..Len(lines) :
            Blank(lines[n]) => ~HasDiag(n) /\ n \notin Range(srcLine)

\* C9 amended: splitByComma returns no token for the empty line and exactly one
\* empty token for a non-empty whitespace-only line; a load skips every empty
\* or whitespace-only line in both passes with no diagnostic and no record.
C9_BlankLineSkipped ==
    /\ last.op = "split" /\ last.arg = <<>> => tok = <<>>
    /\ last.op = "split" /\ last.arg # <<>> /\ Blank(last.arg) => tok = << <<>> >>
    /\ Loaded =>
         \A n \in 1..Len(lines) :
            Blank(lines[n]) =>
               /\ n \in scanned.p1 /\ n \in scanned.p2
               /\ ~HasDiag(n)
               /\ n \notin Range(srcLine)

\* C9 witness: a load of a file with a whitespace-only line and a stored course
\* has returned, and splitByComma was called on the whitespace-only line.
C9_Witness ==
    /\ Loaded
    /\ DOMAIN tbl # {}
    /\ last.op = "split"
    /\ last.arg # <<>>
    /\ Blank(last.arg)
    /\ tok = << <<>> >>

\* a <= b in the lexicographic order of the character codes
LexLeq(a, b) ==
    \/ Len(a) <= Len(b) /\ \A i \in 1..Len(a) : a[i] = b[i]
    \/ \E i \in 1..Len(a) :
         /\ i <= Len(b)
         /\ \A j \in 1..(i - 1) : a[j] = b[j]
         /\ Ord(a[i]) < Ord(b[i])

\* the course entries of an output
Entries(o) == SelectSeq(o, LAMBDA l : l.kind = "Course")

\* C6: printCourseListSorted on the table a load returned writes one entry per
\* record, carrying the record's course number and title, in non-decreasing
\* lexicographic order of course number; on the empty table it writes no entry.
C6_ListSorted ==
    last.op = "list" =>
      LET e == Entries(out)
      IN  /\ Len(e) = Cardinality(DOMAIN tbl)
          /\ DOMAIN tbl # {} => Len(out) = Len(e)
          /\ \A i \in 1..Len(e) :
               /\ e[i].num \in DOMAIN tbl
               /\ e[i].num = tbl[e[i].num].courseNumber
               /\ e[i].title = tbl[e[i].num].title
          /\ \A i, j \in 1..Len(e) : i < j => e[i].num # e[j].num
          /\ \A i \in 1..(Len(e) - 1) : LexLeq(e[i].num, e[i + 1].num)

\* C6 witness: a table of at least two records, one course number a proper
\* prefix of another, was listed.
C6_Witness ==
    /\ last.op = "list"
    /\ Len(Entries(out)) >= 2
    /\ {<<"A">>, <<"A", "1">>} \subseteq DOMAIN tbl

\* the prerequisite lines of an output
PrereqEntries(o) == SelectSeq(o, LAMBDA l : l.kind \in {"Prereq", "PrereqMissing"})

\* C7: option 3 normalizes the typed course number; when it is not in the
\* table the output is "not found" with the normalized number, and otherwise
\* the record's number and title followed by one resolved (number, title) entry
\* per prerequisite of the record, in the record's order.
C7_Lookup ==
    pc = "menu" /\ last.op = "course" /\ dataLoaded =>
      LET key == normalizeCourseNumber(last.arg)
      IN  IF key \notin DOMAIN coursesTable
          THEN out = <<OutLine("NotFound", key, <<>>, 0)>>
          ELSE LET r  == coursesTable[key]
                   es == PrereqEntries(out)
               IN  /\ out[1] = OutLine("Course", r.courseNumber, r.title, 0)
                   /\ Len(es) = Len(r.prerequisites)
                   /\ \A i \in 1..Len(es) :
                        /\ es[i].kind = "Prereq"
                        /\ es[i].num = r.prerequisites[i]
                        /\ es[i].num \in DOMAIN coursesTable
                        /\ es[i].title = coursesTable[es[i].num].title

CouldNotOpenReported == \E i \in 1..Len(diag) : diag[i].kind = "CouldNotOpen"

\* C8: when the file cannot be opened, in pass 1 or in pass 2, the load writes
\* "could not open" and returns an empty table, which main then holds with
\* dataLoaded false; a load that opened the file in both passes never writes
\* that message, so the message tells the two empty outcomes apart.
C8_CouldNotOpen ==
    /\ pc \in {"ret", "menu"} /\ openFail # 0 => CouldNotOpenReported /\ DOMAIN tbl = {}
    /\ pc = "menu" /\ openFail # 0 => DOMAIN coursesTable = {} /\ ~dataLoaded
    /\ openFail = 0 => ~CouldNotOpenReported

\* C8 witness: after a successful load, a load whose second open failed, with
\* course numbers already collected in pass 1, left main with an empty table.
C8_Witness ==
    /\ pc = "menu"
    /\ openFail = 2
    /\ allCourseNumbers # {}
    /\ DOMAIN firstResult # {}
    /\ DOMAIN coursesTable = {}

\* C5: after any sequence of loads the table main holds is exactly the table
\* the most recent load returned, made of records of that load's input only,
\* and a load of the same input as the first load yields the same table as
\* the first load did.
C5_LoadReplaces ==
    pc = "menu" /\ firstInput.set =>
      /\ coursesTable = tbl
      /\ DOMAIN coursesTable \subseteq (IF openFail = 0 THEN DeclaredKeys ELSE {})
      /\ lines = firstInput.lines /\ openFail = firstInput.openFail =>
            coursesTable = firstResult

\* C5 witness: a later load of the same input as the first load has completed
\* with a non-empty table.
C5_Witness ==
    /\ pc = "menu"
    /\ reloaded
    /\ lines = firstInput.lines
    /\ openFail = firstInput.openFail
    /\ DOMAIN coursesTable # {}

\* C10: whenever the menu waits for a choice, dataLoaded is true exactly when
\* the table main holds is non-empty; options 2 and 3 answer "Please load data
\* first" when it is empty and query it otherwise.
C10_MenuInvariant ==
    pc = "menu" =>
      /\ dataLoaded <=> DOMAIN coursesTable # {}
      /\ last.op \in {"list", "course"} =>
           IF DOMAIN coursesTable = {}
           THEN out = <<Msg("PleaseLoad")>>
           ELSE \A i \in 1..Len(out) : out[i].kind \notin {"PleaseLoad", "NoData"}

\* C10 witness: after a successful first load, a later load left the table
\* empty and a query was refused.
C10_Witness ==
    /\ pc = "menu"
    /\ DOMAIN firstResult # {}
    /\ DOMAIN coursesTable = {}
    /\ ~dataLoaded
    /\ last.op \in {"list", "course"}
    /\ out = <<Msg("PleaseLoad")>>

=============================================================================
